---------------------------- MODULE Spec2Model ----------------------------
(***************************************************************************)
(* QAlgorithm: a dataflow engine over a graph of algorithm nodes.          *)
(*                                                                         *)
(* A node owns two completion maps (ancestors, descendants), the flags     *)
(* started / finished, the parameters KeepInput and ParallelExecution, a   *)
(* list input slot and an output slot.  All slots of QAlgorithm live in    *)
(* the thread of the event loop: parallelExecution(), serialExecution(),   *)
(* setFinished() and propagateExecution() run there, one handler at a      *)
(* time, and only run() is handed to the worker pool (QtConcurrent::run).  *)
(* The completion of a pooled run() comes back to the event loop through   *)
(* the node's QFutureWatcher.  Every action below is one such handler,     *)
(* from its entry to its return, or one step of the worker pool.           *)
(*                                                                         *)
(* The node class modelled is the one the example uses for fan-in (Mean):  *)
(* one QA_INPUT_LIST slot and one QA_OUTPUT slot of the same base name,    *)
(* no propagation rule, so that a parent's output is handed to the child's *)
(* input under the same name.  run() is deterministic and does not depend  *)
(* on the order of the list: its output is the node's identity paired with *)
(* the set of values its list holds when it executes.                      *)
(*                                                                         *)
(* QMap<QAShrAlgorithm,bool> is ordered by pointer value: node identities  *)
(* are the numbers 1..MaxNodes and every foreach over keys() is in         *)
(* ascending order.  The graphs are built by setConnection in either       *)
(* direction between any two nodes, so every relative order of the nodes   *)
(* of a graph is covered.                                                  *)
(***************************************************************************)
EXTENDS Integers, Sequences, FiniteSets, TLC

\* Number of node identities.
MaxNodes == 5
\* Nodes and connections of the graphs the two schedulers are run on.
SchedNodes == 3
SchedEdges == 3
\* Nodes and connections of the graphs on which the user also sets ParallelExecution
\* or calls the entry points again, and the number of entry point calls.
SmallNodes == 3
SmallEdges == 3
MaxCalls == 2
\* Nodes and connections of the graphs on which the flags are followed across repeated
\* entry point calls.
RecallNodes == 2
RecallEdges == 1
\* Nodes and connections of the graphs on which the user sets and closes a connection
\* during the execution.
CloseNodes == 3
CloseEdges == 1
\* Connections of the graphs improveTree is applied to.
ImproveEdges == 4
\* Events the event loop may hold while it delivers queued abort() calls.
MaxQueued == 3
\* Pairs the PropagationRules of a child are made of (makePropagationRules).
MaxRules == 2
\* Names in the map given to setParameters().
MaxParameters == 2
\* Nodes and connections of the graphs flattenTree() is applied to.
FlatNodes == 3
FlatEdges == 2
\* Nodes and connections of the graphs improveTree() is applied to after the user
\* has set ParallelExecution parameters.
TuneNodes == 3
TuneEdges == 2
\* Nodes and connections of the graphs in which a node rejects the values written to
\* its input.
RejectNodes == 2
RejectEdges == 1
\* Nodes and connections of the graphs to which a node is connected late, and the
\* number of calls the user makes on them.
LateNodes == 2
LateEdges == 1
LateCalls == 3
\* Nodes and connections of the graphs on which the delivery of abort() is followed.
RaiseNodes == 3
RaiseEdges == 2
\* Nodes and connections of the graphs that may hold a cycle.
CycleNodes == 3
CycleEdges == 3
\* Nested parallelExecution() and serialExecution() calls the stack of the event
\* loop thread has room for.
StackFrames == 12

Nodes == 1..MaxNodes

VARIABLES
    ancestors,          \* QAlgorithm::ancestors  : node -> (ancestor   -> completion)
    descendants,        \* QAlgorithm::descendants: node -> (descendant -> completion)
    started,            \* QAlgorithm::started
    finished,           \* QAlgorithm::finished
    KeepInput,          \* QA_PARAMETER(bool, KeepInput, false)
    ParallelExecution,  \* QA_PARAMETER(bool, ParallelExecution, true)
    algin,              \* m_algin_<Name>: the value last written to the input property
    listin,             \* m_listin_<Name>: the list of the values written
    algout,             \* m_algout_<Name>
    pool,               \* run() tasks handed to QtConcurrent::run, not yet executed
    watcher,            \* QFutureWatcher of the node: "idle", "watching", "pending"
    raises,             \* per node, the receivers whose abort() slot its raise signal is
                        \* connected to (Qt::QueuedConnection)
    events,             \* the events posted to the event loop, oldest first:
                        \* <<"finished", n, 0>> of n's watcher, <<"abort", n, message>>
    aborted,            \* per node, where abort() was called on it from: "run", "raise"
    raised,             \* per node, the messages its raise signal was emitted with
    owed,               \* the nodes that were in the component of a node when its
                        \* run() called abort()
    faulty,             \* the nodes whose run() calls abort() and returns
    turn,               \* parity of the number of queued abort() calls delivered
    crashed,            \* whether the process has ended in a stack overflow
    rejects,            \* per node, whether setProperty() on its input property fails:
                        \* the input is declared with a type the outputs do not convert to
    begun,              \* per node, one entry per start of run(): the ancestors of the
                        \* built graph that had not finished and delivered at that moment
    phase,              \* "build" until a scheduler entry point is called, then "run"
    target,             \* the node the first scheduler entry point was called on
    entry,              \* the entry point called first: "none", "parallel", "serial"
    calls,              \* number of scheduler entry point calls made by the user
    improved,           \* whether improveTree has been applied
    steps,              \* number of steps taken by the worker pool and the event loop
    built,              \* the engine as it was when the user finished building it
    rules,              \* getPropagationRules() of the child getInput() is called on:
                        \* the <<key, value>> pairs in the order of their insertion
    objectName,         \* parent->objectName()
    parentClass,        \* the properties of parent->metaObject(), in index order
    childClass,         \* the properties of child->metaObject(), in index order
    outcome             \* what the getInput(parent) call did

vars == <<ancestors, descendants, started, finished, KeepInput, ParallelExecution,
          algin, listin, algout, pool, watcher, raises, events, aborted, raised, owed,
          faulty, turn, begun, crashed, rejects, phase, target, entry, calls, improved, steps, built,
          rules, objectName, parentClass, childClass, outcome>>

-----------------------------------------------------------------------------
(* Values, maps and ordered iteration *)

\* A default-constructed value of the slot type.
Null == <<0, {}>>

Range(s) == {s[i] : i \in 1..Len(s)}

\* The sequence s without its elements equal to x.
Without(s, x) == SelectSeq(s, LAMBDA y : y # x)

EmptyMap == [x \in {} |-> FALSE]

\* QMap::operator[] used as an lvalue: inserts the key when it is missing.
Put(m, k, v) == [x \in (DOMAIN m) \cup {k} |-> IF x = k THEN v ELSE m[x]]

\* QMap::remove
Remove(m, k) == [x \in (DOMAIN m) \ {k} |-> m[x]]

\* QMap::keys(): ascending order of the keys.
RECURSIVE keys(_)
keys(S) ==
    IF S = {} THEN <<>>
    ELSE LET m == CHOOSE x \in S : \A y \in S : x <= y
         IN  <<m>> \o keys(S \ {m})

\* The engine as one value: the fields are the variables of the program.
Engine ==
    [ancestors |-> ancestors, descendants |-> descendants, started |-> started,
     finished |-> finished, KeepInput |-> KeepInput,
     ParallelExecution |-> ParallelExecution, algin |-> algin, listin |-> listin,
     algout |-> algout, pool |-> pool, watcher |-> watcher, raises |-> raises,
     events |-> events, aborted |-> aborted, raised |-> raised, owed |-> owed,
     begun |-> begun, crashed |-> crashed, rejects |-> rejects, frames |-> 0]

\* The engine after construction of the nodes (QA_IMPL_CREATE, member defaults).
Created ==
    [ancestors |-> [n \in Nodes |-> EmptyMap], descendants |-> [n \in Nodes |-> EmptyMap],
     started |-> [n \in Nodes |-> FALSE], finished |-> [n \in Nodes |-> FALSE],
     KeepInput |-> [n \in Nodes |-> FALSE],
     ParallelExecution |-> [n \in Nodes |-> TRUE],
     algin |-> [n \in Nodes |-> Null], listin |-> [n \in Nodes |-> <<>>],
     algout |-> [n \in Nodes |-> Null], pool |-> [n \in Nodes |-> 0],
     watcher |-> [n \in Nodes |-> "idle"], raises |-> [n \in Nodes |-> {}],
     events |-> <<>>, aborted |-> [n \in Nodes |-> {}],
     raised |-> [n \in Nodes |-> {}], owed |-> {},
     begun |-> [n \in Nodes |-> <<>>], crashed |-> FALSE,
     rejects |-> [n \in Nodes |-> FALSE], frames |-> 0]

-----------------------------------------------------------------------------
(* QAlgorithm member functions, as functions from engine to engine *)

\* allInputsReady() that does not look at the completion map.
allInputsReadyUnchecked(e, n) == TRUE

allInputsReady(e, n) == \A a \in DOMAIN e.ancestors[n] : e.ancestors[n][a]

\* Whether findSharedThis() returns a non-null pointer.
findSharedThis(e, n) ==
    \/ \E d \in DOMAIN e.descendants[n] : n \in DOMAIN e.ancestors[d]
    \/ \E a \in DOMAIN e.ancestors[n] : n \in DOMAIN e.descendants[a]

\* What n still waits for: the ancestors of the built graph that have not finished or
\* whose output is not in n's input list, and the ancestors whose completion is false.
Missing(e, n) ==
    {a \in DOMAIN built.ancestors[n] :
        ~e.finished[a] \/ ~(\E v \in Range(e.listin[n]) : v[1] = a)}
    \cup {a \in DOMAIN e.ancestors[n] : ~e.ancestors[n][a]}

\* setStarted() that leaves the flag as it is.
setStartedUnflagged(e, n) == [e EXCEPT !.begun[n] = Append(@, Missing(e, n))]

\* setStarted(), together with the record of the moment run() is started.
setStarted(e, n) ==
    [e EXCEPT !.started[n] = TRUE, !.begun[n] = Append(@, Missing(e, n))]

\* The connections of the graph, read from the descendants maps.
Edges(e) == {p \in Nodes \X Nodes : p[2] \in DOMAIN e.descendants[p[1]]}

RECURSIVE ReachFrom(_, _)
\* The nodes reachable from the set S along the relation R.
ReachFrom(S, R) ==
    LET T == S \cup {p[2] : p \in {q \in R : q[1] \in S}}
    IN  IF T = S THEN S ELSE ReachFrom(T, R)

Undirected(R) == R \cup {<<p[2], p[1]>> : p \in R}

\* The weakly connected component of n in the graph of e.
Component(e, n) == ReachFrom({n}, Undirected(Edges(e)))

\* An abort(message) whose raise signal calls the abort() slot of each receiver inside
\* the emit (a direct connection), the receivers not emitting further.
abortDirect(e, n, message, from) ==
    [e EXCEPT !.raised[n] = @ \cup {message},
              !.aborted = [y \in Nodes |->
                              IF y = n THEN @[y] \cup {from}
                              ELSE IF y \in e.raises[n] THEN @[y] \cup {"raise"}
                              ELSE @[y]]]

\* abort(message): Q_EMIT raise(message).  Every connection of the signal is queued:
\* the call of each receiver's abort(message) is posted to the event loop, the calls
\* of one emission next to one another (here in the order of the receivers' keys).
abort(e, n, message, from) ==
    LET rs == keys(e.raises[n])
    IN  [e EXCEPT !.events = @ \o [i \in 1..Len(rs) |-> <<"abort", rs[i], message>>],
                  !.raised[n] = @ \cup {message},
                  !.aborted[n] = @ \cup {from}]

\* run(): a node with an invalid parameter calls abort() and returns; otherwise the
\* output is computed from the input list held at that moment.
run(e, n) ==
    IF n \in faulty
    THEN [abort(e, n, n, "run") EXCEPT !.owed = @ \cup (Component(e, n) \ {n})]
    ELSE [e EXCEPT !.algout[n] = <<n, Range(e.listin[n])>>]

\* A setter that keeps the last value only.
setInLast(e, n, v) == [e EXCEPT !.algin[n] = v, !.listin[n] = <<v>>]

\* The setter of a QA_INPUT_LIST property.
setIn(e, n, v) == [e EXCEPT !.algin[n] = v, !.listin[n] = Append(@, v)]

\* getInput(parent): the parent's output is written to the child's input of the same
\* base name; when setProperty() fails nothing is written and getInput() returns false.
getInput(e, child, parent) ==
    IF e.rejects[child] THEN e ELSE setIn(e, child, e.algout[parent])

\* setProperty(<input property>, QVariant()) on every input property of n: the
\* property is written with a default-constructed value.
clearInput(e, n) == setIn(e, n, Null)

\* setConnection() that records both completions as false.
setConnectionUnfinished(e, a, d) ==
    [e EXCEPT !.descendants[a] = Put(@, d, FALSE),
              !.ancestors[d] = Put(@, a, FALSE),
              !.raises[a] = @ \cup {d},
              !.raises[d] = @ \cup {a}]

\* A setConnection() that hands the output of a finished ancestor to the descendant.
setConnectionTransfers(e, a, d) ==
    LET e1 == [e EXCEPT !.descendants[a] = Put(@, d, e.finished[d]),
                        !.ancestors[d] = Put(@, a, e.finished[a]),
                        !.raises[a] = @ \cup {d},
                        !.raises[d] = @ \cup {a}]
    IN  IF e.finished[a] THEN [e1 EXCEPT !.algin[d] = e.algout[a],
                                         !.listin[d] = Append(@, e.algout[a])]
        ELSE e1

\* setConnection(): the two map entries and the two raise -> abort connections.
setConnection(e, a, d) ==
    [e EXCEPT !.descendants[a] = Put(@, d, e.finished[d]),
              !.ancestors[d] = Put(@, a, e.finished[a]),
              !.raises[a] = @ \cup {d},
              !.raises[d] = @ \cup {a}]

\* closeConnection() that removes the entry of the ancestor's map only.
closeConnectionOneSided(e, a, d) ==
    [e EXCEPT !.descendants[a] = Remove(@, d),
              !.raises[a] = @ \ {d},
              !.raises[d] = @ \ {a}]

\* closeConnection() that leaves the connection as it is.
closeConnectionKept(e, a, d) == e

\* closeConnection() that leaves the raise -> abort connections in place.
closeConnectionSubscribed(e, a, d) ==
    [e EXCEPT !.descendants[a] = Remove(@, d),
              !.ancestors[d] = Remove(@, a)]

closeConnection(e, a, d) ==
    [e EXCEPT !.descendants[a] = Remove(@, d),
              !.ancestors[d] = Remove(@, a),
              !.raises[a] = @ \ {d},
              !.raises[d] = @ \ {a}]

checkConnection(e, a, d) ==
    d \in DOMAIN e.descendants[a] /\ a \in DOMAIN e.ancestors[d]

\* QtConcurrent::run(this, &QAlgorithm::run); watcher.setFuture(result): the watcher
\* leaves the future it followed, and the events of that future, behind.
dispatch(e, n) ==
    [e EXCEPT !.pool[n] = @ + 1, !.watcher[n] = "watching",
              !.events = Without(@, <<"finished", n, 0>>)]

\* The process ends in a stack overflow: its threads and its event loop go with it.
overflow(e) ==
    [e EXCEPT !.crashed = TRUE, !.pool = [n \in Nodes |-> 0], !.events = <<>>,
              !.watcher = [n \in Nodes |-> "idle"]]

\* A member function is entered: its frame is pushed on the stack.
enter(e) == [e EXCEPT !.frames = @ + 1]

\* A member function returns, unless the process has ended inside it.
return(e) == IF e.crashed THEN e ELSE [e EXCEPT !.frames = @ - 1]

RECURSIVE parallelExecution(_, _)
RECURSIVE parallelExecute(_, _)
RECURSIVE serialExecute(_, _)
RECURSIVE parallelWalk(_, _)
RECURSIVE serialExecution(_, _)
RECURSIVE serialWalk(_, _)
RECURSIVE propagateExecution(_, _)
RECURSIVE propagateLoop(_, _, _)
RECURSIVE setFinished(_, _)
RECURSIVE parallelWalkUnguarded(_, _)
RECURSIVE propagateLoopNoStart(_, _, _)

\* The loop of parallelExecution() without its isStarted() test.
parallelWalkUnguarded(e, as) ==
    IF as = <<>> THEN e
    ELSE parallelWalkUnguarded(parallelExecution(e, Head(as)), Tail(as))

\* The loop of parallelExecution() over getAncestors().keys(false).
parallelWalk(e, as) ==
    IF as = <<>> THEN e
    ELSE parallelWalk(IF ~e.started[Head(as)] THEN parallelExecution(e, Head(as)) ELSE e,
                      Tail(as))

\* parallelExecution() in a process that has not ended, called with room on the stack.
parallelExecute(e, n) ==
    IF allInputsReady(e, n)
    THEN dispatch(setStarted(e, n), n)
    ELSE parallelWalk(e, keys({a \in DOMAIN e.ancestors[n] : ~e.ancestors[n][a]}))

parallelExecution(e, n) ==
    IF e.crashed THEN e
    ELSE IF e.frames >= StackFrames THEN overflow(e)
    ELSE return(parallelExecute(enter(e), n))

\* serialExecution() without its loop over the ancestors.
serialWalkSkipped(e, as) == e

\* The loop of serialExecution() over getAncestors().keys(false).
serialWalk(e, as) ==
    IF as = <<>> THEN e
    ELSE serialWalk(IF ~e.started[Head(as)] THEN serialExecution(e, Head(as)) ELSE e,
                    Tail(as))

\* A serialExecution() that leaves the ParallelExecution policy as it is.
serialExecuteAsSet(e, n) ==
    LET e1 == IF ~allInputsReady(e, n)
              THEN serialWalk(e, keys({a \in DOMAIN e.ancestors[n] : ~e.ancestors[n][a]}))
              ELSE e
    IN  IF e1.crashed THEN e1 ELSE setFinished(run(setStarted(e1, n), n), n)

\* serialExecution() in a process that has not ended, called with room on the stack.
serialExecute(e, n) ==
    LET e1 == IF ~allInputsReady(e, n)
              THEN serialWalk(e, keys({a \in DOMAIN e.ancestors[n] : ~e.ancestors[n][a]}))
              ELSE e
        e2 == [e1 EXCEPT !.ParallelExecution[n] = FALSE]
    IN  IF e1.crashed THEN e1 ELSE setFinished(run(setStarted(e2, n), n), n)

serialExecution(e, n) ==
    IF e.crashed THEN e
    ELSE IF e.frames >= StackFrames THEN overflow(e)
    ELSE return(serialExecute(enter(e), n))

\* The foreach of propagateExecution() without the execution of the descendants.
propagateLoopNoStart(e, n, ds) ==
    IF ds = <<>> THEN e
    ELSE LET d  == Head(ds)
             e1 == [e EXCEPT !.ancestors[d] = Put(@, n, TRUE)]
             e2 == getInput(e1, d, n)
             e3 == IF ~e2.KeepInput[d]
                   THEN clearInput(closeConnection(e2, n, d), n)
                   ELSE e2
         IN  propagateLoopNoStart(e3, n, Tail(ds))

\* A foreach of propagateExecution() that executes the descendant before it
\* transfers the output to it.
propagateLoopStartFirst(e, n, ds) ==
    IF ds = <<>> THEN e
    ELSE LET d  == Head(ds)
             e1 == [e EXCEPT !.ancestors[d] = Put(@, n, TRUE)]
             e2 == IF ~e1.started[d]
                   THEN IF e1.ParallelExecution[n]
                        THEN parallelExecution(e1, d)
                        ELSE serialExecution(e1, d)
                   ELSE e1
             e3 == getInput(e2, d, n)
             e4 == IF ~e3.KeepInput[d]
                   THEN clearInput(closeConnection(e3, n, d), n)
                   ELSE e3
         IN  propagateLoop(e4, n, Tail(ds))

\* A foreach of propagateExecution() that goes on to the next descendant when
\* getInput() has returned false.
propagateLoopGated(e, n, ds) ==
    IF ds = <<>> THEN e
    ELSE LET d  == Head(ds)
             e1 == [e EXCEPT !.ancestors[d] = Put(@, n, TRUE)]
             e2 == getInput(e1, d, n)
             e3 == IF ~e2.KeepInput[d]
                   THEN clearInput(closeConnection(e2, n, d), n)
                   ELSE e2
             e4 == IF ~e3.started[d]
                   THEN IF e3.ParallelExecution[n]
                        THEN parallelExecution(e3, d)
                        ELSE serialExecution(e3, d)
                   ELSE e3
         IN  propagateLoop(IF e.rejects[d] THEN e1 ELSE e4, n, Tail(ds))

\* The body of the foreach over getDescendants().keys() in propagateExecution().
propagateLoop(e, n, ds) ==
    IF ds = <<>> THEN e
    ELSE LET d  == Head(ds)
             e1 == [e EXCEPT !.ancestors[d] = Put(@, n, TRUE)]
             e2 == getInput(e1, d, n)
             e3 == IF ~e2.KeepInput[d]
                   THEN clearInput(closeConnection(e2, n, d), n)
                   ELSE e2
             e4 == IF ~e3.started[d]
                   THEN IF e3.ParallelExecution[n]
                        THEN parallelExecution(e3, d)
                        ELSE serialExecution(e3, d)
                   ELSE e3
         IN  propagateLoop(e4, n, Tail(ds))

\* A propagateExecution() that does not notify the ancestors.
notifyAncestorsSkipped(e, n) == e

\* The foreach over getAncestors().keys() in propagateExecution().
notifyAncestors(e, n) ==
    [e EXCEPT !.descendants =
        [a \in Nodes |-> IF a \in DOMAIN e.ancestors[n] THEN Put(@[a], n, TRUE) ELSE @[a]]]

propagateExecution(e, n) ==
    IF findSharedThis(e, n)
    THEN propagateLoop(notifyAncestors(e, n), n, keys(DOMAIN e.descendants[n]))
    ELSE e

\* setFinished(): justFinished is connected to propagateExecution in setup(), both in
\* the same thread, so the slot runs inside the emit.
setFinished(e, n) == propagateExecution([e EXCEPT !.finished[n] = TRUE], n)

-----------------------------------------------------------------------------
(* The optimiser *)

RECURSIVE flattenTree(_, _, _)
RECURSIVE flattenRelatives(_, _, _)

\* The recursive step of flattenTree(): each relative not yet a key is flattened into
\* the tree, descendants first, then ancestors.
flattenRelatives(e, rs, tree) ==
    IF rs = <<>> THEN tree
    ELSE flattenRelatives(e, Tail(rs),
            IF Head(rs) \notin DOMAIN tree THEN flattenTree(e, Head(rs), tree) ELSE tree)

\* A flattenTree() whose recursive step visits the descendants only.
flattenTreeDownward(e, n, tree) ==
    IF n \in DOMAIN tree THEN tree
    ELSE IF ~findSharedThis(e, n) THEN tree
    ELSE flattenRelatives(e,
            keys(DOMAIN e.descendants[n]),
            [x \in (DOMAIN tree) \cup {n} |->
                IF x = n THEN DOMAIN e.descendants[n] ELSE tree[x]])

\* flattenTree(tree) called on n: a map from each node to the set of its descendants.
flattenTree(e, n, tree) ==
    IF n \in DOMAIN tree THEN tree
    ELSE IF ~findSharedThis(e, n) THEN tree
    ELSE flattenRelatives(e,
            keys(DOMAIN e.descendants[n]) \o keys(DOMAIN e.ancestors[n]),
            [x \in (DOMAIN tree) \cup {n} |->
                IF x = n THEN DOMAIN e.descendants[n] ELSE tree[x]])

isRemovableConnection(e, p1, p2) ==
    IF checkConnection(e, p2, p1)
    THEN Cardinality(DOMAIN e.descendants[p2]) = 1 /\ Cardinality(DOMAIN e.ancestors[p1]) = 1
    ELSE IF checkConnection(e, p1, p2)
    THEN Cardinality(DOMAIN e.descendants[p1]) = 1 /\ Cardinality(DOMAIN e.ancestors[p2]) = 1
    ELSE FALSE

\* The first loop of improveTree(): replacements[ptr] << child for every removable
\* connection of the flat map.
removableConnections(e, flatMap) ==
    LET ps == {p \in DOMAIN flatMap :
                 \E c \in flatMap[p] : isRemovableConnection(e, p, c)}
    IN  [p \in ps |-> keys({c \in flatMap[p] : isRemovableConnection(e, p, c)})]

RECURSIVE linkReplacements(_)
\* The while(some_changes) loop of improveTree(): the first key whose last element is
\* itself a key takes over that key's list.
linkReplacements(rep) ==
    LET cand == {p1 \in DOMAIN rep : rep[p1][Len(rep[p1])] \in DOMAIN rep}
    IN  IF cand = {} THEN rep
        ELSE LET p1 == CHOOSE x \in cand : \A y \in cand : x <= y
                 p2 == rep[p1][Len(rep[p1])]
             IN  linkReplacements(
                    [p \in (DOMAIN rep) \ {p2} |->
                        IF p = p1 THEN rep[p1] \o rep[p2] ELSE rep[p]])

\* The nodes improveTree() tells to execute their children serially: every element of
\* a replacement list but the last.
serialized(rep) ==
    UNION {{rep[p][i] : i \in 1..(Len(rep[p]) - 1)} : p \in DOMAIN rep}

\* An improveTree() that gives every other node of the engine the parallel policy.
improveTreeReset(e, leaf) ==
    LET rep == linkReplacements(removableConnections(e, flattenTree(e, leaf, EmptyMap)))
    IN  [e EXCEPT !.ParallelExecution = [n \in Nodes |-> n \notin serialized(rep)]]

improveTree(e, leaf) ==
    LET rep == linkReplacements(removableConnections(e, flattenTree(e, leaf, EmptyMap)))
    IN  [e EXCEPT !.ParallelExecution =
            [n \in Nodes |-> IF n \in serialized(rep) THEN FALSE ELSE @[n]]]

-----------------------------------------------------------------------------
(* The worker pool and the event loop, as functions from engine to engine *)

\* A worker thread executes one pooled run() of n; watched tells whether the node's
\* watcher follows the future of this task.
workerRun(e, n, watched) ==
    LET e1 == run(e, n)
    IN  [e1 EXCEPT !.pool[n] = @ - 1,
                   !.watcher[n] = IF watched THEN "pending" ELSE @,
                   !.events = IF watched THEN Append(@, <<"finished", n, 0>>) ELSE @]

\* The event loop delivers the queued call of abort(message) at the head of its queue.
abortDelivered(e, n) ==
    abort([e EXCEPT !.events = Tail(@)], n, Head(e.events)[3], "raise")

\* The event loop delivers QFutureWatcher::finished, at the head of its queue, to
\* setFinished().
watcherFinished(e, n) ==
    setFinished([e EXCEPT !.watcher[n] = "idle", !.events = Tail(@)], n)

RECURSIVE drain(_)
\* One schedule of the pool run to quiescence: the completion at the head of the event
\* queue is delivered first, then the pooled task of the lowest node is executed.
drain(e) ==
    LET T == {n \in Nodes : e.pool[n] > 0}
    IN  IF e.events # <<>> /\ Head(e.events)[1] = "finished"
        THEN drain(watcherFinished(e, Head(e.events)[2]))
        ELSE IF T # {}
        THEN LET n == CHOOSE x \in T : \A y \in T : x <= y
             IN  drain(workerRun(e, n, e.watcher[n] = "watching"))
        ELSE e

-----------------------------------------------------------------------------
(* Properties of the meta-object and PropagationRules, as getInput() reads them *)

\* QString values are sequences of characters.
strArray == <<"A", "r", "r", "a", "y">>
strNumbers == <<"N", "u", "m", "b", "e", "r", "s">>
strAmount == <<"A", "m", "o", "u", "n", "t">>
strSize == <<"S", "i", "z", "e">>
strOrder == <<"O", "r", "d", "e", "r">>
strPercentile == <<"P", "e", "r", "c", "e", "n", "t", "i", "l", "e">>
strMean == <<"M", "e", "a", "n">>
strKeepInput == <<"K", "e", "e", "p", "I", "n", "p", "u", "t">>
strPropagationRules == <<"P", "r", "o", "p", "a", "g", "a", "t", "i", "o", "n", "R", "u", "l", "e", "s">>
strParallelExecution == <<"P", "a", "r", "a", "l", "l", "e", "l", "E", "x", "e", "c", "u", "t", "i", "o", "n">>

\* A property of a meta-object: the prefix of its name (QA_IN "in", QA_OUT "out",
\* QA_PAR "par", none "other"), the rest of the name and the declared type.
Prop(kind, base, type) == [kind |-> kind, base |-> base, type |-> type]

\* The properties every QAlgorithm has: QObject's objectName, then the parameters and
\* the properties of QAlgorithm in the order of their declaration.
QAlgorithmProps ==
    << Prop("other", <<"o", "b", "j", "e", "c", "t", "N", "a", "m", "e">>, "QString"),
       Prop("par", strKeepInput, "bool"),
       Prop("par", strPropagationRules, "QAPropagationRules"),
       Prop("par", strParallelExecution, "bool"),
       Prop("other", <<"f", "i", "n", "i", "s", "h", "e", "d">>, "bool"),
       Prop("other", <<"s", "t", "a", "r", "t", "e", "d">>, "bool"),
       Prop("other", <<"a", "n", "c", "e", "s", "t", "o", "r", "s">>, "QACompletionMap"),
       Prop("other", <<"d", "e", "s", "c", "e", "n", "d", "a", "n", "t", "s">>, "QACompletionMap") >>

RandomGenerator ==
    QAlgorithmProps \o << Prop("par", strAmount, "int"),
                          Prop("out", strNumbers, "QVector<double>") >>

MovingAverage ==
    QAlgorithmProps \o << Prop("in", strArray, "QVector<double>"),
                          Prop("par", strSize, "int"),
                          Prop("out", strArray, "QVector<double>") >>

Percentile ==
    QAlgorithmProps \o << Prop("in", strArray, "QVector<double>"),
                          Prop("par", strOrder, "int"),
                          Prop("out", strPercentile, "double") >>

Mean ==
    QAlgorithmProps \o << Prop("in", strArray, "double"),
                          Prop("out", strMean, "double") >>

ApplicationCloser == QAlgorithmProps

Classes == {RandomGenerator, MovingAverage, Percentile, Mean, ApplicationCloser}

\* QString::contains(x): x occurs in s; the empty string occurs in every string.
contains(s, x) ==
    \E i \in 0..(Len(s) - Len(x)) : SubSeq(s, i + 1, i + Len(x)) = x

\* QStringList::filter(x): the strings that contain x, in the order of the list.
filter(l, x) == SelectSeq(l, LAMBDA s : contains(s, x))

\* QMultiMap::contains(key)
mentions(m, key) == \E i \in 1..Len(m) : m[i][1] = key

\* QMultiMap::values(key): the values of the key, the most recently inserted first.
values(m, key) ==
    LET own == SelectSeq(m, LAMBDA r : r[1] = key)
    IN  [i \in 1..Len(own) |-> own[Len(own) + 1 - i][2]]

\* What QList::first() on an empty list may leave in the string it is assigned to
\* (the behaviour is undefined): the process is terminated, or some string is read.
Crashed == <<"SIGSEGV">>
Junk == {Crashed, <<>>, strArray}

\* QList::first(); junk is what the call yields on an empty list.
first(l, junk) == IF l = <<>> THEN junk ELSE l[1]

\* The child's property base name for a parent property of base name base.
childPropBaseName(m, base, name, junk) ==
    IF ~mentions(m, base) THEN base
    ELSE LET vs == values(m, base)
         IN  IF Len(vs) > 1 THEN first(filter(vs, name), junk) ELSE first(vs, junk)

\* A parameter check that sends every parameter.
parameterSkippedNever(m, p) == FALSE

\* Parameters are sent only if they are explicitly mentioned in the PropagationRules.
parameterSkipped(m, p) == p.kind = "par" /\ ~mentions(m, p.base)

\* QObject::setProperty() on a declared property: the value is written when its type
\* is the declared type or converts to it (bool, int and double convert to each other).
canConvert(from, to) == from = to \/ {from, to} \subseteq {"bool", "int", "double"}

\* No getInput() or setParameters() call made yet: the call, the parameters given to
\* setParameters(), what getInput() returned, the names it resolved, the <<k, i>> it
\* wrote, the <<name, k>> setParameters() wrote and the warnings logged.
NoOutcome ==
    [call |-> "none", parameters |-> EmptyMap, returned |-> "none", resolved |-> {},
     written |-> {}, assigned |-> {}, warned |-> {}]

\* qWarning() << ...
qWarning(o, w) == [o EXCEPT !.warned = @ \cup {w}]

\* The loop over the child's properties for the parent property k and the child base
\* name t: o.written gains <<k, i>> for every child property i that is set.  Every
\* property of the parent is declared readable, so that the QVariant read is valid.
RECURSIVE childLoop(_, _, _, _, _, _)
childLoop(o, pp, k, cp, i, t) ==
    IF i > Len(cp) THEN o
    ELSE IF cp[i].kind \in {"in", "par"} /\ cp[i].base = t
         THEN IF canConvert(pp[k].type, cp[i].type)
              THEN childLoop([o EXCEPT !.written = @ \cup {<<k, i>>}], pp, k, cp, i + 1, t)
              ELSE [qWarning(o, <<"failed to set", k, i>>) EXCEPT !.returned = "false"]
         ELSE childLoop(o, pp, k, cp, i + 1, t)

RECURSIVE parentLoop(_, _, _, _, _, _, _)

\* A loop over the parent's properties that goes on after a failed setProperty().
parentLoopResumed(o, m, pp, name, cp, junk, k) ==
    IF k > Len(pp) THEN (IF o.returned = "none" THEN [o EXCEPT !.returned = "true"] ELSE o)
    ELSE IF pp[k].kind \notin {"out", "par"}
         THEN parentLoop(o, m, pp, name, cp, junk, k + 1)
         ELSE LET t == childPropBaseName(m, pp[k].base, name, junk)
                  o1 == [o EXCEPT !.resolved = @ \cup {<<k, t>>}]
              IN  IF t = Crashed THEN [o EXCEPT !.returned = "crash"]
                  ELSE IF parameterSkipped(m, pp[k])
                       THEN parentLoop(o1, m, pp, name, cp, junk, k + 1)
                       ELSE LET o2 == childLoop([o1 EXCEPT !.returned = "none"],
                                                pp, k, cp, 1, t)
                                o3 == IF o.returned = "false"
                                      THEN [o2 EXCEPT !.returned = "false"] ELSE o2
                            IN  parentLoop(o3, m, pp, name, cp, junk, k + 1)

\* The loop of getInput() over the parent's properties, from property k on.
parentLoop(o, m, pp, name, cp, junk, k) ==
    IF k > Len(pp) THEN [o EXCEPT !.returned = "true"]
    ELSE IF pp[k].kind \notin {"out", "par"}
         THEN parentLoop(o, m, pp, name, cp, junk, k + 1)
         ELSE LET t == childPropBaseName(m, pp[k].base, name, junk)
                  o1 == [o EXCEPT !.resolved = @ \cup {<<k, t>>}]
              IN  IF t = Crashed THEN [o EXCEPT !.returned = "crash"]
                  ELSE IF parameterSkipped(m, pp[k])
                       THEN parentLoop(o1, m, pp, name, cp, junk, k + 1)
                       ELSE LET o2 == childLoop(o1, pp, k, cp, 1, t)
                            IN  IF o2.returned = "false" THEN o2
                                ELSE parentLoop(o2, m, pp, name, cp, junk, k + 1)

\* getInput(parent) on the meta-objects of the child and of the parent.
getInputProperties(m, pp, name, cp, junk) ==
    parentLoop([NoOutcome EXCEPT !.call = "getInput"], m, pp, name, cp, junk, 1)

\* The loop of setParameters() over the properties of the node for one name of the
\* map, from property k on; type is the type of the value given.
RECURSIVE setParameter(_, _, _, _, _)
setParameter(o, cls, name, type, k) ==
    IF k > Len(cls) THEN o
    ELSE IF cls[k].kind \in {"par", "in"} /\ cls[k].base = name
         THEN LET o1 == IF canConvert(type, cls[k].type)
                        THEN [o EXCEPT !.assigned = @ \cup {<<name, k>>}]
                        ELSE qWarning(o, <<"Cannot set", name, k>>)
              IN  setParameter(o1, cls, name, type, k + 1)
         ELSE setParameter(o, cls, name, type, k + 1)

\* The loop of setParameters() over the names of the map that are left (the outcome
\* does not depend on the order of the names).
RECURSIVE setParametersLoop(_, _, _, _)
setParametersLoop(o, cls, ps, names) ==
    IF names = {} THEN o
    ELSE LET name == CHOOSE x \in names : TRUE
             o1 == setParameter(o, cls, name, ps[name], 1)
             o2 == IF \E k \in 1..Len(cls) :
                          cls[k].kind \in {"par", "in"} /\ cls[k].base = name
                   THEN o1
                   ELSE qWarning(o1, <<"not among object's properties", name, 0>>)
         IN  setParametersLoop(o2, cls, ps, names \ {name})

\* setParameters(parameters) on a node of class cls.
setParameters(cls, ps) ==
    setParametersLoop([NoOutcome EXCEPT !.call = "setParameters", !.parameters = ps],
                      cls, ps, DOMAIN ps)

\* The names the user gives to nodes, the keys and the values of the rules.
ObjectNames == {<<>>, <<"e">>, <<"g">>}
RuleKeys == {strNumbers, strArray, strSize, strKeepInput}
RuleValues == {strArray, strSize, strMean}

\* The names and the types of the values the user gives to setParameters().
ParameterNames == {strSize, strArray, strOrder}
ValueTypes == {"int", "QVector<double>"}
ParameterMaps ==
    UNION {[names -> ValueTypes] :
              names \in {x \in SUBSET ParameterNames : Cardinality(x) <= MaxParameters}}

RECURSIVE SeqsUpTo(_, _)
SeqsUpTo(S, n) ==
    IF n = 0 THEN {<<>>}
    ELSE LET shorter == SeqsUpTo(S, n - 1)
         IN  shorter \cup {Append(q, x) : q \in shorter, x \in S}

-----------------------------------------------------------------------------
(* Graph helpers used by guards and properties *)

Connected(n) == DOMAIN ancestors[n] \cup DOMAIN descendants[n] # {}

Commit(e) ==
    /\ ancestors' = e.ancestors
    /\ descendants' = e.descendants
    /\ started' = e.started
    /\ finished' = e.finished
    /\ KeepInput' = e.KeepInput
    /\ ParallelExecution' = e.ParallelExecution
    /\ algin' = e.algin
    /\ listin' = e.listin
    /\ algout' = e.algout
    /\ pool' = e.pool
    /\ watcher' = e.watcher
    /\ raises' = e.raises
    /\ events' = e.events
    /\ aborted' = e.aborted
    /\ raised' = e.raised
    /\ owed' = e.owed
    /\ begun' = e.begun
    /\ crashed' = e.crashed
    /\ rejects' = e.rejects

-----------------------------------------------------------------------------
(* Actions *)

\* The nodes after construction, before the user connects them.
Constructed ==
    /\ ancestors = Created.ancestors
    /\ descendants = Created.descendants
    /\ started = Created.started
    /\ finished = Created.finished
    /\ KeepInput = Created.KeepInput
    /\ ParallelExecution = Created.ParallelExecution
    /\ algin = Created.algin
    /\ listin = Created.listin
    /\ algout = Created.algout
    /\ pool = Created.pool
    /\ watcher = Created.watcher
    /\ raises = Created.raises
    /\ events = Created.events
    /\ aborted = Created.aborted
    /\ raised = Created.raised
    /\ owed = Created.owed
    /\ faulty = {}
    /\ turn = 0
    /\ begun = Created.begun
    /\ crashed = Created.crashed
    /\ rejects = Created.rejects
    /\ phase = "build"
    /\ target = 0
    /\ entry = "none"
    /\ calls = 0
    /\ improved = FALSE
    /\ steps = 0
    /\ built = Created

\* The nodes are of class Mean, without PropagationRules and without an object name.
Init ==
    /\ Constructed
    /\ rules = <<>>
    /\ objectName = <<>>
    /\ parentClass = Mean
    /\ childClass = Mean
    /\ outcome = NoOutcome

\* The variables of one getInput(parent) call.
Transfer == <<rules, objectName, parentClass, childClass, outcome>>

Ghosts == <<phase, target, entry, calls, improved, built, faulty, turn, Transfer>>

\* The user connects a to d (operator>>) among the first N nodes, keeping the graph
\* acyclic and within maxEdges connections.
Connect(a, d, N, maxEdges) ==
    /\ phase = "build" /\ ~improved
    /\ a \in 1..N /\ d \in 1..N /\ a # d
    /\ ~checkConnection(Engine, a, d)
    /\ a \notin ReachFrom({d}, Edges(Engine))
    /\ Cardinality(Edges(Engine)) < maxEdges
    /\ Commit(setConnection(Engine, a, d))
    /\ built' = setConnection(Engine, a, d)
    /\ UNCHANGED <<phase, target, entry, calls, improved, steps, faulty, turn, Transfer>>

\* The user sets the parameter KeepInput of a connected node (setParameters).
SetKeepInput(n) ==
    /\ phase = "build" /\ ~improved
    /\ ~KeepInput[n]
    /\ Connected(n)
    /\ Commit([Engine EXCEPT !.KeepInput[n] = TRUE])
    /\ built' = [Engine EXCEPT !.KeepInput[n] = TRUE]
    /\ UNCHANGED <<phase, target, entry, calls, improved, steps, faulty, turn, Transfer>>

\* The user sets the parameter ParallelExecution of a connected node to false.
SetSerial(n) ==
    /\ phase = "build" /\ ~improved
    /\ ParallelExecution[n]
    /\ Connected(n)
    /\ Commit([Engine EXCEPT !.ParallelExecution[n] = FALSE])
    /\ built' = [Engine EXCEPT !.ParallelExecution[n] = FALSE]
    /\ UNCHANGED <<phase, target, entry, calls, improved, steps, faulty, turn, Transfer>>

\* The user calls QAlgorithm::improveTree(leaf) on the graph built; built keeps the
\* engine as it was before.
Improve(leaf) ==
    /\ phase = "build" /\ ~improved
    /\ Connected(leaf)
    /\ Commit(improveTree(Engine, leaf))
    /\ improved' = TRUE
    /\ UNCHANGED <<phase, target, entry, calls, steps, built, faulty, turn, Transfer>>

\* The user calls n->parallelExecution() on a node of the graph built.
CallParallel(n) ==
    /\ phase = "build"
    /\ Connected(n)
    /\ Commit(parallelExecution(Engine, n))
    /\ phase' = "run" /\ target' = n /\ entry' = "parallel" /\ calls' = calls + 1
    /\ UNCHANGED <<improved, steps, built, faulty, turn, Transfer>>

\* The user calls n->serialExecution() on a node of the graph built; the call returns
\* when the action ends.
CallSerial(n) ==
    /\ phase = "build"
    /\ Connected(n)
    /\ Commit(serialExecution(Engine, n))
    /\ phase' = "run" /\ target' = n /\ entry' = "serial" /\ calls' = calls + 1
    /\ UNCHANGED <<improved, steps, built, faulty, turn, Transfer>>

\* A worker thread executes a pooled run().  When the node's watcher follows this
\* future, the completion is posted to the event loop.
WorkerRun(n) ==
    /\ pool[n] > 0
    /\ \E watched \in BOOLEAN :
          /\ watched => watcher[n] = "watching"
          /\ (pool[n] = 1 /\ watcher[n] = "watching") => watched
          /\ Commit(workerRun(Engine, n, watched))
    /\ steps' = steps + 1
    /\ UNCHANGED Ghosts

\* The event loop delivers QFutureWatcher::finished to setFinished().
WatcherFinished(n) ==
    /\ watcher[n] = "pending"
    /\ events # <<>> /\ Head(events) = <<"finished", n, 0>>
    /\ Commit(watcherFinished(Engine, n))
    /\ steps' = steps + 1
    /\ UNCHANGED Ghosts

Build ==
    \/ \E a, d \in Nodes : Connect(a, d, SchedNodes, SchedEdges)
    \/ \E n \in Nodes : SetKeepInput(n)

Pool ==
    \/ \E n \in Nodes : WorkerRun(n)
    \/ \E n \in Nodes : WatcherFinished(n)

\* One parallelExecution() call on a graph whose nodes all keep ParallelExecution.
NextParallel ==
    \/ Build
    \/ \E n \in Nodes : CallParallel(n)
    \/ Pool

SpecParallel == Init /\ [][NextParallel]_vars

\* A step of the pool or of the event loop, told by its guard and its count: the
\* steps of Pool are exactly the steps of PoolStep, and both are enabled in the same
\* states.
PoolStep ==
    /\ \/ \E n \in Nodes : pool[n] > 0
       \/ events # <<>> /\ Head(events)[1] = "finished"
    /\ steps' = steps + 1

\* The worker pool executes every task handed to it and the event loop delivers every
\* posted completion.
SpecParallelFair == SpecParallel /\ WF_steps(PoolStep)

\* One serialExecution() call.
NextSerial ==
    \/ Build
    \/ \E n \in Nodes : CallSerial(n)

SpecSerial == Init /\ [][NextSerial]_vars

\* The user calls n->parallelExecution() again while the graph is being executed.
RecallParallel(n) ==
    /\ phase = "run" /\ calls < MaxCalls
    /\ n \in Component(built, target)
    /\ Commit(parallelExecution(Engine, n))
    /\ calls' = calls + 1
    /\ UNCHANGED <<phase, target, entry, improved, steps, built, faulty, turn, Transfer>>

\* The user calls n->serialExecution() again while the graph is being executed.
RecallSerial(n) ==
    /\ phase = "run" /\ calls < MaxCalls
    /\ n \in Component(built, target)
    /\ Commit(serialExecution(Engine, n))
    /\ calls' = calls + 1
    /\ UNCHANGED <<phase, target, entry, improved, steps, built, faulty, turn, Transfer>>

BuildSmall ==
    \/ \E a, d \in Nodes : Connect(a, d, SmallNodes, SmallEdges)
    \/ \E n \in Nodes : SetKeepInput(n)

\* Any sequence of entry point calls, up to MaxCalls of them.
NextReentry ==
    \/ BuildSmall
    \/ \E n \in Nodes : CallParallel(n)
    \/ \E n \in Nodes : CallSerial(n)
    \/ \E n \in Nodes : RecallParallel(n)
    \/ \E n \in Nodes : RecallSerial(n)
    \/ Pool

SpecReentry == Init /\ [][NextReentry]_vars

\* One parallelExecution() call on a graph whose ParallelExecution parameters are set
\* by the user.
NextFlags ==
    \/ BuildSmall
    \/ \E n \in Nodes : SetSerial(n)
    \/ \E n \in Nodes : CallParallel(n)
    \/ Pool

SpecFlags == Init /\ [][NextFlags]_vars

\* One parallelExecution() call on a graph of default parameters, with or without
\* improveTree() before it.  The connections go from the lower to the higher node.
NextImprove ==
    \/ \E a, d \in Nodes : a < d /\ Connect(a, d, MaxNodes, ImproveEdges)
    \/ \E n \in Nodes : Improve(n)
    \/ \E n \in Nodes : CallParallel(n)
    \/ Pool

SpecImprove == Init /\ [][NextImprove]_vars

\* improveTree() on a graph whose ParallelExecution parameters are set by the user.
NextTune ==
    \/ \E a, d \in Nodes : Connect(a, d, TuneNodes, TuneEdges)
    \/ \E n \in Nodes : SetSerial(n)
    \/ \E n \in Nodes : Improve(n)

SpecTune == Init /\ [][NextTune]_vars

\* The user gives a connected node a parameter its run() rejects (RandomGenerator
\* with a non-positive Amount).
SetFaulty(n) ==
    /\ phase = "build" /\ ~improved
    /\ n \notin faulty
    /\ Connected(n)
    /\ faulty' = faulty \cup {n}
    /\ Commit(Engine)
    /\ UNCHANGED <<phase, target, entry, calls, improved, steps, built, turn, Transfer>>

\* The user builds the graph with a connected node whose input property is of a type
\* the outputs do not convert to.
SetRejecting(n) ==
    /\ phase = "build" /\ ~improved
    /\ ~rejects[n]
    /\ Connected(n)
    /\ Commit([Engine EXCEPT !.rejects[n] = TRUE])
    /\ built' = [Engine EXCEPT !.rejects[n] = TRUE]
    /\ UNCHANGED <<phase, target, entry, calls, improved, steps, faulty, turn, Transfer>>

\* One parallelExecution() call on a graph in which some transfers fail.
NextReject ==
    \/ \E a, d \in Nodes : Connect(a, d, RejectNodes, RejectEdges)
    \/ \E n \in Nodes : SetKeepInput(n)
    \/ \E n \in Nodes : SetRejecting(n)
    \/ \E n \in Nodes : CallParallel(n)
    \/ Pool

SpecReject == Init /\ [][NextReject]_vars

\* Whether the event loop can deliver a queued abort() to n: the call is at the head
\* of the queue, and the queue has room for the calls n's raise posts.
CanAbort(n) ==
    /\ events # <<>> /\ Head(events)[1] = "abort" /\ Head(events)[2] = n
    /\ Len(events) - 1 + Cardinality(raises[n]) <= MaxQueued

\* The event loop delivers a queued abort(message) call to n.
AbortDelivered(n) ==
    /\ CanAbort(n)
    /\ Commit(abortDelivered(Engine, n))
    /\ turn' = 1 - turn
    /\ UNCHANGED <<phase, target, entry, calls, improved, steps, built, faulty, Transfer>>

\* One parallelExecution() call on a graph in which run() of some nodes aborts.
NextAbort ==
    \/ Build
    \/ \E n \in Nodes : SetFaulty(n)
    \/ \E n \in Nodes : CallParallel(n)
    \/ Pool
    \/ \E n \in Nodes : AbortDelivered(n)

SpecAbort == Init /\ [][NextAbort]_vars

\* One parallelExecution() call on a small graph in which run() of some nodes aborts.
NextRaise ==
    \/ \E a, d \in Nodes : Connect(a, d, RaiseNodes, RaiseEdges)
    \/ \E n \in Nodes : SetFaulty(n)
    \/ \E n \in Nodes : CallParallel(n)
    \/ Pool
    \/ \E n \in Nodes : AbortDelivered(n)

SpecRaise == Init /\ [][NextRaise]_vars

\* A delivery of a queued abort(), told by its guard and by turn.
AbortTurn ==
    /\ \E n \in Nodes : CanAbort(n)
    /\ turn' = 1 - turn

\* The pool executes every task and the event loop delivers every event posted to it.
SpecAbortFair == SpecAbort /\ WF_steps(PoolStep) /\ WF_turn(AbortTurn)

\* The user closes a connection of the graph (closeConnection).
Disconnect(a, d) ==
    /\ phase = "build" /\ ~improved
    /\ checkConnection(Engine, a, d)
    /\ Commit(closeConnection(Engine, a, d))
    /\ built' = closeConnection(Engine, a, d)
    /\ UNCHANGED <<phase, target, entry, calls, improved, steps, faulty, turn, Transfer>>

\* Connections set and closed by the user, then one call of either entry point.
NextEdges ==
    \/ BuildSmall
    \/ \E a, d \in Nodes : Disconnect(a, d)
    \/ \E n \in Nodes : CallParallel(n)
    \/ \E n \in Nodes : CallSerial(n)
    \/ Pool

SpecEdges == Init /\ [][NextEdges]_vars

\* Connections set and closed by the user, then one parallelExecution() call, with
\* flattenTree() applicable in every state.
NextFlat ==
    \/ \E a, d \in Nodes : Connect(a, d, FlatNodes, FlatEdges)
    \/ \E a, d \in Nodes : Disconnect(a, d)
    \/ \E n \in Nodes : CallParallel(n)
    \/ Pool

SpecFlat == Init /\ [][NextFlat]_vars

BuildRecall ==
    \/ \E a, d \in Nodes : Connect(a, d, RecallNodes, RecallEdges)
    \/ \E n \in Nodes : SetKeepInput(n)

\* Any sequence of entry point calls, up to MaxCalls of them, on a pair of nodes.
NextRecall ==
    \/ BuildRecall
    \/ \E n \in Nodes : CallParallel(n)
    \/ \E n \in Nodes : CallSerial(n)
    \/ \E n \in Nodes : RecallParallel(n)
    \/ \E n \in Nodes : RecallSerial(n)
    \/ Pool

SpecRecall == Init /\ [][NextRecall]_vars

\* A child with some PropagationRules and a named parent, both of some class.
InitInput ==
    /\ Constructed
    /\ rules \in SeqsUpTo(RuleKeys \X RuleValues, MaxRules)
    /\ objectName \in ObjectNames
    /\ parentClass \in Classes
    /\ childClass \in Classes
    /\ outcome = NoOutcome

\* child->getInput(parent)
GetInput(junk) ==
    /\ outcome = NoOutcome
    /\ outcome' = getInputProperties(rules, parentClass, objectName, childClass, junk)
    /\ UNCHANGED <<rules, objectName, parentClass, childClass>>
    /\ Commit(Engine)
    /\ UNCHANGED <<phase, target, entry, calls, improved, steps, built, faulty, turn>>

\* create(parameters) calls setParameters(parameters) on the node it has constructed,
\* which has no PropagationRules and no object name yet.
SetParameters(ps) ==
    /\ outcome = NoOutcome
    /\ rules = <<>> /\ objectName = <<>>
    /\ outcome' = setParameters(childClass, ps)
    /\ UNCHANGED <<rules, objectName, parentClass, childClass>>
    /\ Commit(Engine)
    /\ UNCHANGED <<phase, target, entry, calls, improved, steps, built, faulty, turn>>

NextInput ==
    \/ \E junk \in Junk : GetInput(junk)
    \/ \E ps \in ParameterMaps : SetParameters(ps)

SpecInput == InitInput /\ [][NextInput]_vars

\* The user connects a to d (setConnection) once a scheduler has been started, whatever
\* the two nodes have done so far, connected already or not, keeping the graph acyclic.
LateConnect(a, d) ==
    /\ phase = "run" /\ calls < MaxCalls
    /\ a \in 1..RecallNodes /\ d \in 1..RecallNodes /\ a # d
    /\ a \notin ReachFrom({d}, Edges(Engine))
    /\ Commit(setConnection(Engine, a, d))
    /\ calls' = calls + 1
    /\ UNCHANGED <<phase, target, entry, improved, steps, built, faulty, turn, Transfer>>

\* Connections set by the user before and after a scheduler is started.
NextConnect ==
    \/ BuildRecall
    \/ \E n \in Nodes : CallParallel(n)
    \/ \E n \in Nodes : CallSerial(n)
    \/ \E a, d \in Nodes : LateConnect(a, d)
    \/ Pool

SpecConnect == Init /\ [][NextConnect]_vars

\* The user connects a to d (setConnection) while the graph is being executed,
\* keeping the graph acyclic.
ConnectLate(a, d) ==
    /\ phase = "run" /\ calls < LateCalls
    /\ a \in 1..LateNodes /\ d \in 1..LateNodes /\ a # d
    /\ ~checkConnection(Engine, a, d)
    /\ a \notin ReachFrom({d}, Edges(Engine))
    /\ Commit(setConnection(Engine, a, d))
    /\ calls' = calls + 1
    /\ UNCHANGED <<phase, target, entry, improved, steps, built, faulty, turn, Transfer>>

\* The user calls n->parallelExecution() on a connected node that has not been
\* started, while the graph is being executed.
CallLate(n) ==
    /\ phase = "run" /\ calls < LateCalls
    /\ n \in 1..LateNodes /\ Connected(n) /\ ~started[n]
    /\ Commit(parallelExecution(Engine, n))
    /\ calls' = calls + 1
    /\ UNCHANGED <<phase, target, entry, improved, steps, built, faulty, turn, Transfer>>

\* The user calls n->parallelExecution() on a node, connected or not.
CallAlone(n) ==
    /\ phase = "build"
    /\ n \in 1..LateNodes
    /\ Commit(parallelExecution(Engine, n))
    /\ phase' = "run" /\ target' = n /\ entry' = "parallel" /\ calls' = calls + 1
    /\ UNCHANGED <<improved, steps, built, faulty, turn, Transfer>>

\* A node or a graph is executed, a node is connected to it afterwards and executed in
\* turn.
NextLate ==
    \/ \E a, d \in Nodes : Connect(a, d, LateNodes, LateEdges)
    \/ \E n \in Nodes : CallAlone(n)
    \/ \E a, d \in Nodes : ConnectLate(a, d)
    \/ \E n \in Nodes : CallLate(n)
    \/ Pool

SpecLate == Init /\ [][NextLate]_vars

\* No entry of the maps of a and d names the other.
Apart(a, d) ==
    /\ d \notin DOMAIN descendants[a] \cup DOMAIN ancestors[a]
    /\ a \notin DOMAIN descendants[d] \cup DOMAIN ancestors[d]

\* The user calls setConnection(a, d) and then closeConnection(a, d) on two nodes that
\* nothing connects, in one handler of the event loop, once a scheduler has been started.
ConnectThenClose(a, d) ==
    /\ phase = "run" /\ calls < MaxCalls
    /\ a \in 1..CloseNodes /\ d \in 1..CloseNodes /\ a # d
    /\ Apart(a, d)
    /\ Commit(closeConnection(setConnection(Engine, a, d), a, d))
    /\ calls' = calls + 1
    /\ UNCHANGED <<phase, target, entry, improved, steps, built, faulty, turn, Transfer>>

\* Connections set and closed again by the user before and after a scheduler is started.
NextConnectClose ==
    \/ \E a, d \in Nodes : Connect(a, d, CloseNodes, CloseEdges)
    \/ \E n \in Nodes : CallParallel(n)
    \/ \E n \in Nodes : CallSerial(n)
    \/ \E a, d \in Nodes : ConnectThenClose(a, d)
    \/ Pool

SpecConnectClose == Init /\ [][NextConnectClose]_vars

\* The user connects a to d (operator>>) among the first CycleNodes nodes: connecting
\* checks nothing, so that the connection may close a cycle.
ConnectAny(a, d) ==
    /\ phase = "build" /\ ~improved
    /\ a \in 1..CycleNodes /\ d \in 1..CycleNodes /\ a # d
    /\ ~checkConnection(Engine, a, d)
    /\ Cardinality(Edges(Engine)) < CycleEdges
    /\ Commit(setConnection(Engine, a, d))
    /\ built' = setConnection(Engine, a, d)
    /\ UNCHANGED <<phase, target, entry, calls, improved, steps, faulty, turn, Transfer>>

\* One scheduler call on a graph that may hold cycles.
NextCycle ==
    \/ \E a, d \in Nodes : ConnectAny(a, d)
    \/ \E n \in Nodes : CallParallel(n)
    \/ \E n \in Nodes : CallSerial(n)
    \/ Pool

SpecCycle == Init /\ [][NextCycle]_vars

Quiescent ==
    /\ phase = "run"
    /\ \A n \in Nodes : pool[n] = 0 /\ watcher[n] # "pending"

-----------------------------------------------------------------------------
(* Properties *)

BuiltAncestors(n) == DOMAIN built.ancestors[n]
BuiltDescendants(n) == DOMAIN built.descendants[n]

\* The nodes of the built graph that the target depends on, the target included.
Upstream == ReachFrom({target}, {<<p[2], p[1]>> : p \in Edges(built)})

AllFinished == \A n \in Component(built, target) : finished[n]

\* C1: under parallelExecution() on a graph whose nodes all keep ParallelExecution,
\* whenever a node's run is dispatched every ancestor it was connected to has
\* finished and has delivered its output to it, and every completion the node holds
\* is true.
C1_ParallelRunAfterAncestors ==
    \A n \in Nodes : \A i \in 1..Len(begun[n]) : begun[n][i] = {}

\* A node with two ancestors has been dispatched by parallelExecution().
C1_Witness ==
    \E n \in Nodes :
        entry = "parallel" /\ Cardinality(BuiltAncestors(n)) >= 2 /\ Len(begun[n]) = 1

\* C2: under serialExecution() every run begins only after each ancestor of the node
\* has finished and has delivered its output to it.
C2_SerialRunAfterAncestors ==
    entry = "serial" => \A n \in Nodes : \A i \in 1..Len(begun[n]) : begun[n][i] = {}

\* C3: during one parallelExecution() invocation each node's run is dispatched at
\* most once.
C3_ParallelRunsOnce ==
    \A n \in Nodes : Len(begun[n]) <= 1

\* A graph with a fan-in and a fan-out has been executed to the end by
\* parallelExecution(), each of its nodes once.
C3_Witness ==
    /\ Quiescent /\ entry = "parallel"
    /\ \E n \in Component(built, target) : Cardinality(BuiltAncestors(n)) >= 2
    /\ \E n \in Component(built, target) : Cardinality(BuiltDescendants(n)) >= 2
    /\ \A n \in Component(built, target) : Len(begun[n]) = 1

\* C4: during one serialExecution() invocation each node's run is executed at most
\* once.
C4_SerialRunsOnce ==
    entry = "serial" => \A n \in Nodes : Len(begun[n]) <= 1

\* C5: started guards against re-entry: no step, an entry point called again on a
\* started node included, starts the run of a node that has already started.
C5_StartedGuardsReentry ==
    [][\A n \in Nodes : started[n] => Len(begun'[n]) = Len(begun[n])]_vars

\* C6: after parallelExecution() on any node, with no abort and a fair pool, the
\* engine reaches quiescence, and in every quiescent state each node of the
\* component of the dispatched node has finished.
C6_ParallelCompletes ==
    /\ [](Quiescent => AllFinished)
    /\ (phase = "run") ~> Quiescent

\* The engine is quiescent and finished on a component that holds a root and a sink
\* the dispatched node does not depend on.
C6_Witness ==
    /\ Quiescent /\ entry = "parallel" /\ AllFinished
    /\ \E r, s \in Component(built, target) \ Upstream :
          BuiltAncestors(r) = {} /\ BuiltDescendants(s) = {} /\ r # s

\* C7: when serialExecution() returns, every node of the component of the node it
\* was called on has finished.
C7_SerialCompletes ==
    entry = "serial" => AllFinished

\* serialExecution() has returned from a call on a node that has ancestors and
\* descendants, in a component of at least three nodes.
C7_Witness ==
    /\ entry = "serial" /\ phase = "run"
    /\ BuiltAncestors(target) # {} /\ BuiltDescendants(target) # {}
    /\ Cardinality(Component(built, target)) >= 3
    /\ AllFinished

\* C8: parallelExecution() and serialExecution() called on the same node of the same
\* graph leave the same output values: the outputs of a parallel execution at
\* quiescence are those serialExecution() leaves when it returns.
C8_ParallelEqualsSerial ==
    Quiescent /\ entry = "parallel" =>
        algout = serialExecution(built, target).algout

\* C9: the outputs of a parallel execution after improveTree() are those of the
\* parallel execution of the graph as built.
C9_ImprovePreservesOutputs ==
    Quiescent /\ improved =>
        algout = drain(parallelExecution(built, target)).algout

\* C10: whatever the ParallelExecution parameters, a node dispatched by
\* parallelExecution() or inline by a node whose ParallelExecution is false begins
\* its run only after all its ancestors have finished and delivered.
C10_RunAfterAncestorsAnyFlags ==
    \A n \in Nodes : started[n] => \A i \in DOMAIN begun[n] : begun[n][i] = {}

\* C11: a node on which abort() has been called is never dispatched afterwards, and
\* once a node of a component has aborted no node of that component that has not yet
\* started is started.
C11_NoStartAfterAbort ==
    [][\A n \in Nodes :
          (\E x \in Component(built, n) : aborted[x] # {}) /\ ~started[n]
              => ~started'[n]]_vars

\* C12: a node whose run() calls abort(message) and returns never emits justFinished:
\* its finished flag stays false and it does not propagate to its descendants (while
\* the sinks downstream observe raise(message)).
C12_AbortingNodeNeverFinishes ==
    \A n \in Nodes : "run" \in aborted[n] =>
        /\ ~finished[n]
        /\ \A d \in BuiltDescendants(n) : n \in DOMAIN ancestors[d] => ~ancestors[d][n]

\* The event loop holds as many events as the model lets it hold.
Full ==
    /\ events # <<>> /\ Head(events)[1] = "abort"
    /\ ~CanAbort(Head(events)[2])

\* C13: if the run() of a node x aborts, abort() is called, within finitely many
\* steps of a fair event loop, on every node y that was in the component of x at
\* that moment (as long as the event loop has room for the calls).
C13_AbortReachesComponent ==
    \A y \in Nodes : (y \in owed) ~> (aborted[y] # {} \/ Full)

\* C14: in every reachable state, after any sequence of connections, closed
\* connections and scheduler steps, d is a key of a's descendants exactly when a is a
\* key of d's ancestors.
C14_EdgeSymmetry ==
    \A a, d \in Nodes : d \in DOMAIN descendants[a] <=> a \in DOMAIN ancestors[d]

\* The scheduler has removed some connections of the graph built and kept others, and
\* a node has propagated more than once.
C14_Witness ==
    /\ phase = "run"
    /\ Edges(Engine) # {} /\ Edges(Engine) # Edges(built)
    /\ \E n \in Nodes : Len(begun[n]) >= 2 /\ finished[n]

\* C15: in every reachable state of either scheduler a finished node is started, and
\* neither started nor finished goes from true back to false.
C15_FinishedImpliesStarted ==
    /\ [](\A n \in Nodes : finished[n] => started[n])
    /\ [][\A n \in Nodes : /\ (started[n] => started'[n])
                            /\ (finished[n] => finished'[n])]_vars

\* Nodes have finished under both schedulers' entry points while another node is
\* started and not yet finished.
C15_Witness ==
    /\ calls = 2
    /\ \E n, m \in Nodes : finished[n] /\ started[m] /\ ~finished[m]

\* C16: if every node has KeepInput false (and no node aborts), then at the quiescence
\* of parallelExecution() every connection of the component has been removed: no
\* node is a key of a neighbour's ancestors or descendants map.
C16_ConnectionsReleased ==
    Quiescent /\ (\A n \in Nodes : ~KeepInput[n]) =>
        \A n \in Component(built, target) :
            ancestors[n] = EmptyMap /\ descendants[n] = EmptyMap /\ raises[n] = {}

\* A graph of SchedEdges connections, no KeepInput set, has been executed to the end.
C16_Witness ==
    /\ Quiescent /\ entry = "parallel"
    /\ \A n \in Nodes : ~KeepInput[n]
    /\ Cardinality(Edges(built)) = SchedEdges
    /\ AllFinished

\* C17: a node with KeepInput true still holds the values of its inputs after it has
\* finished and propagated, whatever the KeepInput of its descendants.
C17_KeepInputKeepsInputs ==
    \A n \in Nodes :
        KeepInput[n] /\ finished[n] /\ BuiltAncestors(n) # {} => algin[n] # Null

\* C18: the inputs of a node with KeepInput false are reset once it has finished and
\* its outputs have been transferred, a sink and a node whose descendants all have
\* KeepInput true included.
C18_InputsResetWithoutKeepInput ==
    \A n \in Nodes :
        ~KeepInput[n] /\ finished[n] /\ BuiltAncestors(n) # {} => algin[n] = Null

\* C19: the child base name getInput() resolves for a parent property of base name s
\* is a function of the child's rules and of the parent's object name: s when the rules
\* do not mention s, the single value when the rules hold exactly one value for s, and
\* otherwise the first value for s that contains the parent's object name.
C19_RuleResolution ==
    /\ outcome.returned # "crash"
    /\ \A r \in outcome.resolved :
          LET s == parentClass[r[1]].base
              vs == values(rules, s)
          IN  \/ ~mentions(rules, s) /\ r[2] = s
              \/ Len(vs) = 1 /\ r[2] = vs[1]
              \/ /\ Len(vs) > 1
                 /\ \E i \in 1..Len(vs) :
                       /\ contains(vs[i], objectName)
                       /\ \A j \in 1..(i - 1) : ~contains(vs[j], objectName)
                       /\ r[2] = vs[i]

\* C20: getInput() writes a parameter of the parent into the child only if the child's
\* rules mention the base name of the parameter, and a call that returns true has
\* written every output of the parent to each input or parameter of the child that
\* bears the resolved name, whether or not the rules mention the output.
C20_ParametersSticky ==
    /\ \A w \in outcome.written :
          parentClass[w[1]].kind = "par" => mentions(rules, parentClass[w[1]].base)
    /\ outcome.returned = "true" =>
          \A k \in 1..Len(parentClass) :
              parentClass[k].kind = "out" =>
                  /\ \E r \in outcome.resolved : r[1] = k
                  /\ \A r \in outcome.resolved : \A i \in 1..Len(childClass) :
                        /\ r[1] = k
                        /\ childClass[i].kind \in {"in", "par"}
                        /\ childClass[i].base = r[2]
                        => <<k, i>> \in outcome.written

\* A getInput() call has returned true after it wrote an output that no rule mentions,
\* wrote a parameter that a rule mentions, and left alone a parameter of the child that
\* has the name of a parameter of the parent no rule mentions.
C20_Witness ==
    /\ outcome.returned = "true"
    /\ \E w \in outcome.written :
          parentClass[w[1]].kind = "out" /\ ~mentions(rules, parentClass[w[1]].base)
    /\ \E w \in outcome.written : parentClass[w[1]].kind = "par"
    /\ \E k \in 1..Len(parentClass), i \in 1..Len(childClass) :
          /\ parentClass[k].kind = "par" /\ childClass[i].kind = "par"
          /\ parentClass[k].base = childClass[i].base
          /\ <<k, i>> \notin outcome.written

\* The child property i receives the parent property k in a getInput() call that has
\* reached k: k is an output or a parameter the rules mention, and i is an input or a
\* parameter that bears the name resolved for k.
Eligible(k, i) ==
    /\ parentClass[k].kind \in {"out", "par"}
    /\ ~parameterSkipped(rules, parentClass[k])
    /\ childClass[i].kind \in {"in", "par"}
    /\ \E r \in outcome.resolved : r[1] = k /\ r[2] = childClass[i].base

\* The pair <<k2, i2>> comes before <<k, i>> in the two nested loops of getInput().
Before(k2, i2, k, i) == k2 < k \/ (k2 = k /\ i2 < i)

\* The name getInput() resolves for the parent property k when the resolution is defined.
ResolvedName(k) == childPropBaseName(rules, parentClass[k].base, objectName, Crashed)

\* C21 (as stated): when a child property rejects the value of a parent property, only
\* that transfer is skipped: the call has still written every other output and every
\* other parameter the rules mention to the child properties that take them.
C21_FailedTransferSkipsOnlySlot ==
    outcome.returned \in {"true", "false"} =>
        \A k \in 1..Len(parentClass), i \in 1..Len(childClass) :
            /\ parentClass[k].kind \in {"out", "par"}
            /\ ~parameterSkipped(rules, parentClass[k])
            /\ childClass[i].kind \in {"in", "par"}
            /\ childClass[i].base = ResolvedName(k)
            /\ canConvert(parentClass[k].type, childClass[i].type)
            => <<k, i>> \in outcome.written

\* C21 (amended): a getInput() call that returns false has stopped at the first child
\* property that rejected a value: it has made exactly the transfers that come before
\* that one in the order of the two loops, and none after.
C21_FailedTransferStops ==
    outcome.returned = "false" =>
        \E k \in 1..Len(parentClass), i \in 1..Len(childClass) :
            /\ Eligible(k, i)
            /\ ~canConvert(parentClass[k].type, childClass[i].type)
            /\ outcome.written =
                  {w \in (1..Len(parentClass)) \X (1..Len(childClass)) :
                      Eligible(w[1], w[2]) /\ Before(w[1], w[2], k, i)}

\* A call has returned false after it made a transfer, and a later output of the
\* parent that the child would take has not been transferred.
C21_Witness ==
    /\ outcome.returned = "false"
    /\ outcome.written # {}
    /\ \E k \in 1..Len(parentClass), i \in 1..Len(childClass) :
          /\ parentClass[k].kind = "out"
          /\ childClass[i].kind = "in"
          /\ childClass[i].base = ResolvedName(k)
          /\ canConvert(parentClass[k].type, childClass[i].type)
          /\ <<k, i>> \notin outcome.written

\* The property k of the node takes the value given for name, by its name.
Named(name, k) ==
    childClass[k].kind \in {"par", "in"} /\ childClass[k].base = name

\* A write of a value of the wrong type has been attempted by the call made.
Mismatched ==
    \/ /\ outcome.call = "setParameters"
       /\ \E name \in DOMAIN outcome.parameters, k \in 1..Len(childClass) :
             Named(name, k) /\ ~canConvert(outcome.parameters[name], childClass[k].type)
    \/ outcome.call = "getInput" /\ outcome.returned = "false"

\* C22: a write of a value whose type does not match the declared type of
\* the property, by setParameters() or by getInput(), makes the node call abort(), that
\* is emit raise.
C22_TypeErrorRaises ==
    Mismatched => \E n \in Nodes : raised[n] # {} \/ aborted[n] # {}

\* C23: setConnection(a, d) records d in the descendants of a with the completion
\* d.finished and a in the ancestors of d with the completion a.finished, connects the
\* raise of each to the abort of the other, and leaves every other connection, every
\* other subscription and the started and finished flags of every node as they were.
C23_ConnectRecords ==
    [][\A a, d \in Nodes :
          LateConnect(a, d) =>
              /\ descendants' =
                    [descendants EXCEPT ![a] = Put(descendants[a], d, finished[d])]
              /\ ancestors' = [ancestors EXCEPT ![d] = Put(ancestors[d], a, finished[a])]
              /\ raises' = [raises EXCEPT ![a] = @ \cup {d}, ![d] = @ \cup {a}]
              /\ started' = started /\ finished' = finished]_vars

\* A connection set after the scheduler was started, from a node that had finished and
\* propagated to a node that has not finished and does not keep its inputs: the first
\* completion is true, the second false.
C23_Witness ==
    \E a, d \in Nodes :
        /\ calls >= 2 /\ <<a, d>> \in Edges(Engine)
        /\ finished[a] /\ ~finished[d] /\ ~KeepInput[d]
        /\ ancestors[d][a] /\ ~descendants[a][d]

\* C24: for two nodes that nothing connects, setConnection(a, d) followed by
\* closeConnection(a, d) leaves the ancestors and descendants maps and the raise ->
\* abort connections as they were before, and checkConnection(a, d), which tells
\* whether both map entries exist, is false before, true between the two calls and
\* false after.
C24_CloseInvertsConnect ==
    [][\A a, d \in Nodes :
          ConnectThenClose(a, d) =>
              /\ ancestors' = ancestors /\ descendants' = descendants
              /\ raises' = raises
              /\ ~checkConnection(Engine, a, d)
              /\ checkConnection(setConnection(Engine, a, d), a, d)
              /\ ~checkConnection(closeConnection(setConnection(Engine, a, d), a, d), a, d)]_vars

\* The user has set and closed a connection between two nodes of a graph that is being
\* executed, while another connection is in place and a node is running.
C24_Witness ==
    /\ phase = "run" /\ calls >= 2
    /\ Edges(Engine) # {}
    /\ \E n, m \in Nodes : Apart(n, m) /\ Connected(n) /\ started[n] /\ ~finished[n]

\* C25: improveTree(leaf) leaves ParallelExecution false on the parent of every
\* removable connection of the component of leaf (the parent has that one descendant,
\* the child that one ancestor), the head of a chain of removable connections and the
\* parent of a single removable connection included.
C25_ImproveSerializesParents ==
    [][\A leaf \in Nodes :
          Improve(leaf) =>
              \A p, c \in Component(Engine, leaf) :
                  checkConnection(Engine, p, c) /\ isRemovableConnection(Engine, p, c)
                      => ~ParallelExecution'[p]]_vars

\* The map from each node of the component of n to the set of its descendants.
FlatComponent(n) == [x \in Component(Engine, n) |-> DOMAIN descendants[x]]

\* C26 (as stated): flattenTree() called on a node returns the map whose keys are the
\* nodes of the weakly connected component of the node and whose value for a key is the
\* set of its direct descendants, also when the component is the node alone.
C26_FlattenIsComponent ==
    \A n \in Nodes : flattenTree(Engine, n, EmptyMap) = FlatComponent(n)

\* C26 (amended): flattenTree() called on a node that has a connection returns the map
\* whose keys are the nodes of its weakly connected component and whose value for a
\* key is the set of its direct descendants; called on a node that has no connection
\* it returns the empty map.
C26_FlattenIsComponentIfConnected ==
    \A n \in Nodes :
        flattenTree(Engine, n, EmptyMap) =
            IF Connected(n) THEN FlatComponent(n) ELSE EmptyMap

\* A graph is being executed in which a node has both an ancestor and a descendant,
\* next to a node that has no connection, and flattenTree() has told the two apart.
C26_Witness ==
    /\ phase = "run"
    /\ \E n, m \in Nodes :
          /\ DOMAIN ancestors[n] # {} /\ DOMAIN descendants[n] # {}
          /\ Cardinality(DOMAIN flattenTree(Engine, n, EmptyMap)) >= 3
          /\ ~Connected(m)
          /\ flattenTree(Engine, m, EmptyMap) = EmptyMap

\* The nodes that lie on a cycle of the graph built.
OnCycle == {n \in Nodes : n \in ReachFrom({p[2] : p \in {q \in Edges(built) : q[1] = n}}, Edges(built))}

\* flattenTree() called on a node of a cycle returns the map of the component.
FlattenEndsOnCycle ==
    \A n \in OnCycle : flattenTree(built, n, EmptyMap) =
                          [x \in Component(built, n) |-> DOMAIN built.descendants[x]]

\* C27: on a graph with a cycle the walks end: flattenTree() returns the map of the
\* component, skipping the nodes it has visited, and parallelExecution() or
\* serialExecution() called on a node of the cycle returns instead of recursing until
\* the stack overflows.
C27_WalksEndOnCycle ==
    /\ FlattenEndsOnCycle
    /\ (phase = "run" /\ target \in OnCycle) => ~crashed

\* C28: when a serialExecution() call has returned, no run() has been handed to the
\* worker pool, and every node that has run has ParallelExecution false: the policy is
\* set before the run, so that the propagation that follows the run executes the
\* descendants serially too.
C28_SerialStaysSerial ==
    entry = "serial" =>
        \A n \in Nodes :
            /\ pool[n] = 0 /\ watcher[n] = "idle"
            /\ begun[n] # <<>> => ~ParallelExecution[n]

\* A serialExecution() call has run a node that is neither the node it was called on
\* nor one of its ancestors.
C28_Witness ==
    /\ entry = "serial"
    /\ \E n \in Nodes : n \notin Upstream /\ begun[n] # <<>> /\ ~ParallelExecution[n]
    /\ \E n \in Upstream \ {target} : begun[n] # <<>>

\* C29: under parallelExecution(), when the run() of a node begins its input list
\* holds exactly one entry per parent, and the entries are in the order in which the
\* completions of the parents were processed: processing the completion of a parent
\* appends the output of the parent to the list of each of its children.
C29_ListHoldsOneEntryPerParent ==
    [][/\ \A n \in Nodes : WorkerRun(n) =>
              /\ Len(listin[n]) = Cardinality(BuiltAncestors(n))
              /\ {listin[n][i][1] : i \in 1..Len(listin[n])} = BuiltAncestors(n)
       /\ \A p \in Nodes : WatcherFinished(p) =>
              \A d \in DOMAIN descendants[p] :
                  listin'[d] = Append(listin[d], algout[p])]_vars

\* A node with two parents has run on a list in which the parent declared later comes
\* first.
C29_Witness ==
    \E n \in Nodes :
        /\ entry = "parallel"
        /\ Cardinality(BuiltAncestors(n)) >= 2
        /\ Len(listin[n]) = 2 /\ listin[n][1][1] > listin[n][2][1]
        /\ algout[n] # Null

\* C30: under parallelExecution() with every ParallelExecution policy true, from the
\* moment the run() of a node is handed to the worker pool until it has been executed
\* nothing writes to the inputs of the node, neither the transfer of the output of an
\* ancestor nor the reset of the inputs: at the hand-over every ancestor's output is
\* in the input list already, and no later step changes the inputs; and the
\* completions are processed one at a time.
C30_NoWriteDuringRun ==
    [][/\ \A n \in Nodes :
              pool'[n] > pool[n] => begun'[n][Len(begun'[n])] = {}
       /\ \A n \in Nodes :
              pool[n] > 0 => listin'[n] = listin[n] /\ algin'[n] = algin[n]
       /\ Cardinality({p \in Nodes : finished'[p] /\ ~finished[p]}) <= 1]_vars

\* The completion of a node with descendants is about to be processed, and its output
\* to be transferred, while the run() of another node is in the worker pool.
C30_Witness ==
    /\ entry = "parallel"
    /\ \E n, m \in Nodes :
          /\ n # m /\ pool[n] > 0
          /\ events # <<>> /\ Head(events) = <<"finished", m, 0>>
          /\ DOMAIN descendants[m] # {}

\* x emits its raise signal in this step: its run() calls abort(), or a queued
\* abort() call is delivered to it.
Emits(x) == (WorkerRun(x) /\ x \in faulty) \/ AbortDelivered(x)

\* C31: the step in which a node emits raise calls abort() on no other node: the call
\* of the abort() slot of each receiver is posted to the event loop, where it waits
\* for a later step.
C31_AbortIsQueued ==
    [][\A x \in Nodes : Emits(x) =>
          /\ \A y \in Nodes \ {x} : aborted'[y] = aborted[y] /\ raised'[y] = raised[y]
          /\ \A y \in raises[x] : \E i \in 1..Len(events') :
                events'[i][1] = "abort" /\ events'[i][2] = y]_vars

\* A queued abort() has been delivered to a node while the call posted for another
\* node by the same or an earlier emission is still waiting.
C31_Witness ==
    \E x, y, z \in Nodes :
        /\ "run" \in aborted[x]
        /\ y # x /\ "raise" \in aborted[y]
        /\ z # y /\ aborted[z] = {}
        /\ \E i \in 1..Len(events) : events[i][1] = "abort" /\ events[i][2] = z

\* C32: when the completion of n is processed and its output has been transferred to
\* a descendant d, the connection from n to d is closed exactly when KeepInput of n
\* is false, whatever the KeepInput of d.
C32_EdgeClosedByOwnKeepInput ==
    [][\A n \in Nodes : WatcherFinished(n) =>
          \A d \in DOMAIN descendants[n] :
              d \notin DOMAIN descendants'[n] <=> ~KeepInput[n]]_vars

\* C33: between the steps of the scheduler, for every connection from a to d that is
\* still there, the completion d holds for a tells whether a has finished, and the
\* completion a holds for d tells whether d has finished.
C33_CompletionIsFinished ==
    \A a, d \in Nodes :
        /\ a \in DOMAIN ancestors[d] => (ancestors[d][a] <=> finished[a])
        /\ d \in DOMAIN descendants[a] => (descendants[a][d] <=> finished[d])

\* A connection whose two nodes have finished is still there, next to a connection
\* whose ancestor has finished and whose descendant has not.
C33_Witness ==
    /\ phase = "run"
    /\ \E a, d \in Nodes :
          d \in DOMAIN descendants[a] /\ descendants[a][d] /\ ancestors[d][a]
    /\ \E a, d \in Nodes :
          d \in DOMAIN descendants[a] /\ ~descendants[a][d] /\ ancestors[d][a]

\* No call of abort() waits in the event loop.
NoAbortPending == \A i \in 1..Len(events) : events[i][1] # "abort"

\* C34: when the run() of a single node aborts in a graph none of whose connections
\* is ever closed, the calls of abort() posted to a fair event loop are eventually
\* all delivered with none posted anew (as long as the event loop has room for the
\* calls).
C34_AbortsDieOut ==
    ([](Edges(Engine) = Edges(built)) /\ [](Cardinality(faulty) <= 1))
        => <>[](NoAbortPending \/ Full)

\* C35: for every rule multimap and every parent object name, those included where the
\* rules hold several values for a parent property none of which contains the name,
\* getInput() ends without a crash, and each child base name it resolves is the base
\* name of the parent property or one of the values the rules hold for it.
C35_ResolutionTotal ==
    outcome.call = "getInput" =>
        /\ outcome.returned \in {"true", "false"}
        /\ \A r \in outcome.resolved :
              LET s == parentClass[r[1]].base
              IN  r[2] = s \/ r[2] \in Range(values(rules, s))

\* The connections of the graph built that propagation has closed.
Closed == Edges(built) \ Edges(Engine)

\* d and the nodes downstream of d in the graph built.
Downstream(d) == ReachFrom({d}, Edges(built))

\* C36: once n has finished and propagation has closed the connection from n to d, no
\* raise emitted by d or by a node downstream of d calls abort() on n, and no raise
\* emitted by n calls abort() on d: n is not among the receivers of their raise
\* signals, nor d among those of n.
C36_ClosedEdgeCarriesNoAbort ==
    \A n, d \in Nodes :
        finished[n] /\ <<n, d>> \in Closed =>
            /\ d \notin raises[n]
            /\ \A y \in Downstream(d) : n \notin raises[y]

\* C37: setConnection(a, d) called after a has finished stores true as the completion
\* d holds for a and transfers nothing to d, and parallelExecution() called on a node
\* whose ancestors have all finished dispatches it without a transfer: d can run
\* although the output of a never reaches it.
C37_LateConnectSkipsTransfer ==
    [][/\ \A a, d \in Nodes : (ConnectLate(a, d) /\ finished[a]) =>
              /\ ancestors'[d][a]
              /\ listin'[d] = listin[d] /\ algin'[d] = algin[d]
       /\ \A d \in Nodes : (CallLate(d) /\ \A a \in DOMAIN ancestors[d] : finished[a]) =>
              /\ pool'[d] = pool[d] + 1
              /\ listin'[d] = listin[d] /\ algin'[d] = algin[d]]_vars

\* A node connected to a finished ancestor after the graph was executed has run, and
\* the output of the ancestor is not in its input list.
C37_Witness ==
    \E a, d \in Nodes :
        /\ <<a, d>> \in Edges(Engine) \ Edges(built)
        /\ finished[a] /\ ancestors[d][a]
        /\ finished[d] /\ algout[d] = <<d, {}>>
        /\ \A i \in 1..Len(listin[d]) : listin[d][i][1] # a

\* C38: when the completion of n is processed and the transfer to a descendant d
\* fails, nothing is written to d, yet d holds true as the completion of n, the
\* connection is closed unless d keeps its inputs, and d is dispatched if it has not
\* been started and each of its ancestors has finished.
C38_FailedTransferDoesNotGate ==
    [][\A n \in Nodes : WatcherFinished(n) =>
          \A d \in DOMAIN descendants[n] : rejects[d] =>
              /\ listin'[d] = listin[d] /\ algin'[d] = algin[d]
              /\ n \in DOMAIN ancestors'[d] <=> KeepInput[d]
              /\ n \in DOMAIN ancestors'[d] => ancestors'[d][n]
              /\ (~started[d] /\ \A a \in DOMAIN ancestors[d] \ {n} : ancestors[d][a]) =>
                     started'[d] /\ pool'[d] = pool[d] + 1]_vars

\* A node has run and finished although the transfer of the output of its ancestor
\* to it failed.
C38_Witness ==
    \E n, d \in Nodes :
        /\ <<n, d>> \in Edges(built) /\ rejects[d]
        /\ finished[n] /\ finished[d] /\ algout[d] = <<d, {}>>

\* C39: improveTree() leaves every connection, every completion, every subscription,
\* the started and finished flags, the KeepInput parameters and the inputs and outputs
\* of every node as they are, and sets no ParallelExecution parameter to true.
C39_ImproveOnlyClearsPolicy ==
    [][\A leaf \in Nodes : Improve(leaf) =>
          /\ ancestors' = ancestors /\ descendants' = descendants /\ raises' = raises
          /\ started' = started /\ finished' = finished /\ KeepInput' = KeepInput
          /\ algin' = algin /\ listin' = listin /\ algout' = algout
          /\ \A n \in Nodes : ParallelExecution'[n] => ParallelExecution[n]]_vars

\* improveTree() has set the ParallelExecution parameter of a node to false in a graph
\* where the user had set that of another node to false.
C39_Witness ==
    /\ improved
    /\ \E n, m \in Nodes :
          /\ n # m /\ Connected(n) /\ Connected(m)
          /\ built.ParallelExecution[n] /\ ~ParallelExecution[n]
          /\ ~built.ParallelExecution[m] /\ ~ParallelExecution[m]

=============================================================================
